---- MODULE Spec2Model ----
(***************************************************************************)
(* Model of new_m18.py: the M18 charger protocol client (framing,          *)
(* checksum, bit reversal, transmit/receive, print flags) over a serial    *)
(* transport with read timeouts.                                           *)
(***************************************************************************)
EXTENDS Integers, Sequences, FiniteSets, TLC

\* ------------------------------------------------------------------ bounds

\* Most bytes the devices have delivered and the clients have not yet read,
\* summed over all ports.
MaxBuf == 3
\* Largest size argument of read_response that is enumerated (besides 10).
\* read_response always reads a first byte, so the sizes start at 1.
MaxSize == 3
\* Most times the caller hands one and the same buffer to send_command.
MaxResend == 2

\* The most serial ports enumerated.
MaxPorts == 2

\* The most lines typed at the selection prompt.
MaxAttempts == 4

\* The largest address of a DataField that is enumerated.
MaxAddress == 65535

\* ------------------------------------------------------- program constants

KEEPALIVE_CMD == 98
SHORT_REPLY == 130
PACK_H_MAX == 65535

\* ------------------------------------------------------------ input sets

\* The client objects of the process.
Clients == {"m1", "m2"}

\* The clients whose port traffic Spec follows. Every M18 owns its own
\* serial.Serial and no method touches another client's port, so the traffic
\* of one port is followed; SpecFlags and SpecFrame run all of Clients.
IOClients == {"m1"}

\* Raw (wire) bytes a device puts on the line: 0x41 mirrors to the logical
\* sentinel 0x82, and 0x82 mirrors to the logical 0x41.
RawSample == {65, 130}

Sizes == (1 .. MaxSize) \cup {10}

Rep(b, n) == [k \in 1 .. n |-> b]

\* Command buffers a caller builds under Spec: the keepalive command, the
\* empty command and a two-byte command.
Commands == {<<KEEPALIVE_CMD>>, <<>>, <<1, 255>>}

\* Command buffers a caller builds under SpecFrame: every command of up to two
\* bytes over FrameBytes, and runs of 0xFF whose sums are 65280 (256 bytes),
\* 65535 (257 bytes, the largest sum that packs) and 65790 (258 bytes).
FrameBytes == {0, 1, KEEPALIVE_CMD, 255}
FrameCommands ==
    {<<>>} \cup {<<a>> : a \in FrameBytes}
    \cup {<<a, b>> : a \in FrameBytes, b \in FrameBytes}
    \cup {Rep(255, 256), Rep(255, 257), Rep(255, 258)}

AttrNames == {"PRINT_TX", "PRINT_RX", "PRINT_TX_SAVE", "PRINT_RX_SAVE"}

\* ------------------------------------------------------------------ state

VARIABLES
    port,      \* port[c]: "closed" | "open", the serial connection of client c
    inbuf,     \* inbuf[c]: raw bytes delivered by the device, not yet read
    stale,     \* stale[c]: how many bytes at the head of inbuf[c] were already
               \*           pending when the latest _send on c began
    firstWrite,\* firstWrite[c]: the first byte sequence ever written to c's port
    wrote,     \* wrote[c]: whether anything was written to c's port yet
    cls,       \* the attributes of class M18 (PRINT_TX ... PRINT_RX_SAVE)
    attr,      \* attr[c]: the instance dictionary of client c
    cmdbuf,    \* the caller's command buffer (a mutable bytearray)
    resend,    \* how many times cmdbuf was handed to send_command
    last,      \* what the most recent step did: calls, output, result
    sel,       \* the run of prompt_com_port_selection(): ports, port_id, output
    field      \* a DataField and what its addr_h / addr_l properties returned

vars == <<port, inbuf, stale, firstWrite, wrote, cls, attr, cmdbuf, resend, last,
          sel, field>>

\* ---------------------------------------------------------------- helpers

Min(a, b) == IF a < b THEN a ELSE b
Max(a, b) == IF a > b THEN a ELSE b

Take(s, n) == SubSeq(s, 1, Min(Max(n, 0), Len(s)))
Drop(s, n) == SubSeq(s, Min(Max(n, 0), Len(s)) + 1, Len(s))

Bit(b, k) == (b \div (2 ^ k)) % 2

\* reverse_bits: the full 8-bit mirror (bit 0 <-> bit 7, ...).
reverse_bits(b) ==
    Bit(b, 0) * 128 + Bit(b, 1) * 64 + Bit(b, 2) * 32 + Bit(b, 3) * 16
    + Bit(b, 4) * 8 + Bit(b, 5) * 4 + Bit(b, 6) * 2 + Bit(b, 7)

\* bytearray(self.reverse_bits(byte) for byte in data): every byte mirrored,
\* in order.
MirrorAll(data) == [k \in DOMAIN data |-> reverse_bits(data[k])]

HexDigits == <<"0", "1", "2", "3", "4", "5", "6", "7",
               "8", "9", "A", "B", "C", "D", "E", "F">>

\* f"{byte:02X}": two uppercase hexadecimal digits.
Hex2(b) == <<HexDigits[(b \div 16) + 1], HexDigits[(b % 16) + 1]>>

\* " ".join(f"{byte:02X}" for byte in data): the tokens, in order.
HexLine(data) == [k \in DOMAIN data |-> Hex2(data[k])]

\* print(f"<label>{debug_print}"): one line of output.
Line(label, data) == [label |-> label, hex |-> HexLine(data)]

\* ------------------------------------------------------------- attributes

\* An instance dictionary with no attribute of its own.
EmptyDict == [n \in {} |-> FALSE]

\* Python attribute lookup self.<name>: the instance dictionary first, then
\* the class.
GetAttr(a, k, name) == IF name \in DOMAIN a THEN a[name] ELSE k[name]

\* Python attribute assignment self.<name> = v: always the instance dictionary.
SetAttr(a, name, v) ==
    [n \in (DOMAIN a) \cup {name} |-> IF n = name THEN v ELSE a[n]]

\* The flags as client c's code reads them: <<PRINT_TX, PRINT_RX>>.
Flags(a, k) == <<GetAttr(a, k, "PRINT_TX"), GetAttr(a, k, "PRINT_RX")>>

\* A set_txrx_print that assigns M18.PRINT_TX / M18.PRINT_RX, the class
\* attributes, instead of the instance's.
set_txrx_print_OnClass(a, k, enable) ==
    [inst |-> a,
     cls  |-> [n \in DOMAIN k |->
                 IF n \in {"PRINT_TX", "PRINT_RX"} THEN enable ELSE k[n]]]

\* set_txrx_print(enable): self.PRINT_TX = enable; self.PRINT_RX = enable.
\* The result is the instance dictionary and the class attributes afterwards.
set_txrx_print(a, k, enable) ==
    [inst |-> SetAttr(SetAttr(a, "PRINT_TX", enable), "PRINT_RX", enable),
     cls  |-> k]

\* A save_and_set_txrx that keeps what an earlier save has put in the shadows.
save_and_set_txrx_KeepFirst(a, k, enable) ==
    LET a1 == IF "PRINT_TX_SAVE" \in DOMAIN a THEN a
              ELSE SetAttr(a, "PRINT_TX_SAVE", GetAttr(a, k, "PRINT_TX"))
        a2 == IF "PRINT_RX_SAVE" \in DOMAIN a1 THEN a1
              ELSE SetAttr(a1, "PRINT_RX_SAVE", GetAttr(a1, k, "PRINT_RX"))
    IN  set_txrx_print(a2, k, enable)

\* A save_and_set_txrx that sets the flags before it copies them.
save_and_set_txrx_SetFirst(a, k, enable) ==
    LET s0 == set_txrx_print(a, k, enable)
        a1 == SetAttr(s0.inst, "PRINT_TX_SAVE", GetAttr(s0.inst, s0.cls, "PRINT_TX"))
        a2 == SetAttr(a1, "PRINT_RX_SAVE", GetAttr(a1, s0.cls, "PRINT_RX"))
    IN  [inst |-> a2, cls |-> s0.cls]

\* save_and_set_txrx(enable): copy the flags read through self into the
\* shadows, then set_txrx_print(enable).
save_and_set_txrx(a, k, enable) ==
    LET a1 == SetAttr(a, "PRINT_TX_SAVE", GetAttr(a, k, "PRINT_TX"))
        a2 == SetAttr(a1, "PRINT_RX_SAVE", GetAttr(a1, k, "PRINT_RX"))
    IN  set_txrx_print(a2, k, enable)

\* restore_txrx(): copy the shadows read through self back into the flags.
restore_txrx(a, k) ==
    LET a1 == SetAttr(a, "PRINT_TX", GetAttr(a, k, "PRINT_TX_SAVE"))
        a2 == SetAttr(a1, "PRINT_RX", GetAttr(a1, k, "PRINT_RX_SAVE"))
    IN  [inst |-> a2, cls |-> k]

\* --------------------------------------------------------------- checksum

\* The sum of payload[lo..hi], each byte masked with 0xFFFF. Integer addition
\* is exact and associative, so the range is split in halves, which keeps the
\* depth of the evaluation logarithmic in the payload's length.
RECURSIVE SumMasked(_, _, _)
SumMasked(payload, lo, hi) ==
    IF lo > hi THEN 0
    ELSE IF lo = hi THEN payload[lo] % 65536
    ELSE LET mid == (lo + hi) \div 2
         IN  SumMasked(payload, lo, mid) + SumMasked(payload, mid + 1, hi)

\* A calculate_checksum that keeps its sum in 16 bits.
calculate_checksum_Wrapped(payload) == SumMasked(payload, 1, Len(payload)) % 65536

\* calculate_checksum: checksum += byte & 0xFFFF over the payload; the sum is
\* a Python integer and is never truncated here.
calculate_checksum(payload) == SumMasked(payload, 1, Len(payload))

\* struct.pack(">H", v): two bytes, high then low; struct.error outside 0..65535.
PackH_ok(v) == v >= 0 /\ v <= PACK_H_MAX
PackH(v) == <<v \div 256, v % 256>>

\* add_checksum: lsb_command += struct.pack(">H", checksum); return lsb_command.
\* When pack raises, the += never runs and the buffer is left as it was.
add_checksum(lsb_command) ==
    LET cs == calculate_checksum(lsb_command)
    IN  IF PackH_ok(cs)
        THEN [raised |-> "", value |-> lsb_command \o PackH(cs)]
        ELSE [raised |-> "struct.error", value |-> lsb_command]

\* -------------------------------------------------------------- transport

Call(name, n, data) == [call |-> name, n |-> n, data |-> data]

\* serial.Serial.read(n) with a timeout: up to n of the pending bytes, fewer
\* (possibly none) when the timeout expires first; nothing for n <= 0.
read(buf, n) == Take(buf, n)

\* A _send that does not reset the input buffer.
reset_input_buffer_Skipped(buf) == buf

\* serial.Serial.reset_input_buffer(): drop everything pending.
reset_input_buffer(buf) == <<>>

\* The record of a step: which call it was, by which client, with which
\* arguments, what was pending on the port, the transport calls it made, the
\* lines it printed, what it returned or raised.
\*   staleRead: bytes it read that were pending before the latest _send began
\*   before:    <<PRINT_TX, PRINT_RX>> as the client read them before the step
\*   afterSave: a restore_txrx that directly follows the same client's
\*              save_and_set_txrx; saved: the flags before that save
\* How far the calls on one client have got through save, save, restore,
\* restore: a and b are the arguments of the two saves, first the flags
\* before the first of them.
NoNest == [stage |-> 0, a |-> FALSE, b |-> FALSE, first |-> <<FALSE, FALSE>>]

Quiet(op, c) ==
    [op |-> op, client |-> c, cmd |-> <<>>, size |-> 0, enable |-> FALSE,
     pending |-> <<>>, calls |-> <<>>, printed |-> <<>>, result |-> <<>>,
     raised |-> "", staleRead |-> 0, before |-> <<FALSE, FALSE>>,
     afterSave |-> FALSE, saved |-> <<FALSE, FALSE>>, sum |-> 0,
     nest |-> NoNest]

\* ------------------------------------------------------------ send / read

\* A _send that prints the frame in place of writing it when PRINT_TX is set.
send_PrintOrWrite(buf, message, printTx) ==
    LET msb == MirrorAll(message)
    IN  IF printTx
        THEN [calls   |-> <<Call("reset_input_buffer", 0, <<>>)>>,
              printed |-> <<Line("Sending:  ", message)>>,
              written |-> <<>>,
              inbuf   |-> reset_input_buffer(buf)]
        ELSE [calls   |-> <<Call("reset_input_buffer", 0, <<>>),
                            Call("write", Len(msb), msb)>>,
              printed |-> <<>>,
              written |-> msb,
              inbuf   |-> reset_input_buffer(buf)]

\* A _send that writes the logical bytes, without the bit reversal.
send_Unmirrored(buf, message, printTx) ==
    [calls   |-> <<Call("reset_input_buffer", 0, <<>>),
                   Call("write", Len(message), message)>>,
     printed |-> IF printTx THEN <<Line("Sending:  ", message)>>
                            ELSE <<>>,
     written |-> message,
     inbuf   |-> reset_input_buffer(buf)]

\* _send(message) on a port whose pending input is buf: the transport calls,
\* the output, and the input buffer afterwards.
send(buf, message, printTx) ==
    LET after == reset_input_buffer(buf)
        msb   == MirrorAll(message)
    IN  [calls   |-> <<Call("reset_input_buffer", 0, <<>>), Call("write", Len(msb), msb)>>,
         printed |-> IF printTx THEN <<Line("Sending:  ", message)>>
                                ELSE <<>>,
         written |-> msb,
         inbuf   |-> after]

\* send_command(command): add_checksum, then _send.
send_command(buf, command, printTx) ==
    LET framed == add_checksum(command)
    IN  IF framed.raised # ""
        THEN [raised |-> framed.raised, command |-> framed.value, calls |-> <<>>,
              printed |-> <<>>, written |-> <<>>, inbuf |-> buf, sent |-> FALSE]
        ELSE LET s == send(buf, framed.value, printTx)
             IN  [raised |-> "", command |-> framed.value, calls |-> s.calls,
                  printed |-> s.printed, written |-> s.written, inbuf |-> s.inbuf,
                  sent |-> TRUE]

\* A read_response that reads once more before it gives up.
read_empty_Retry(buf, first) ==
    [raised |-> "ValueError: Empty response",
     calls |-> <<Call("read", 1, first), Call("read", 1, read(buf, 1))>>,
     printed |-> <<>>, result |-> <<>>, inbuf |-> buf]

\* read_response, the first read came back empty: raise ValueError.
read_empty(buf, first) ==
    [raised |-> "ValueError: Empty response",
     calls |-> <<Call("read", 1, first)>>,
     printed |-> <<>>, result |-> <<>>, inbuf |-> buf]

\* A read_response that raises when the second read comes back short.
read_more_Strict(buf, first, n2, printRx) ==
    LET rest == Drop(buf, 1)
        more == read(rest, n2)
        lsb  == MirrorAll(first \o more)
    IN  [raised |-> IF Len(more) < n2 THEN "ValueError: Short response" ELSE "",
         calls |-> <<Call("read", 1, first), Call("read", n2, more)>>,
         printed |-> IF printRx /\ Len(more) >= n2
                     THEN <<Line("Received: ", lsb)>> ELSE <<>>,
         result |-> IF Len(more) < n2 THEN <<>> ELSE lsb,
         inbuf |-> Drop(rest, Len(more))]

\* read_response after a first byte, with the second read asking for n2 bytes:
\* msb_response += self.port.read(n2), the mirror of every byte, the output.
read_more(buf, first, n2, printRx) ==
    LET rest == Drop(buf, 1)
        more == read(rest, n2)
        msb  == first \o more
        lsb  == MirrorAll(msb)
    IN  [raised |-> "",
         calls |-> <<Call("read", 1, first), Call("read", n2, more)>>,
         printed |-> IF printRx THEN <<Line("Received: ", lsb)>> ELSE <<>>,
         result |-> lsb,
         inbuf |-> Drop(rest, Len(more))]

\* A read_response without the short reply branch.
read_rest_NoShortReply(buf, first, size, printRx) ==
    read_more(buf, first, size - 1, printRx)

\* A read_response whose long branch asks for size bytes, not size - 1.
read_rest_OffByOne(buf, first, size, printRx) ==
    read_more(buf, first,
              IF reverse_bits(first[1]) = SHORT_REPLY THEN 1 ELSE size, printRx)

\* read_response after a first byte: 1 more byte after the short reply
\* sentinel, size - 1 more otherwise.
read_rest(buf, first, size, printRx) ==
    read_more(buf, first,
              IF reverse_bits(first[1]) = SHORT_REPLY THEN 1 ELSE size - 1, printRx)

\* read_response(size) on a port whose pending input is buf.
read_response(buf, size, printRx) ==
    LET first == read(buf, 1)
    IN  IF Len(first) < 1
        THEN read_empty(buf, first)
        ELSE read_rest(buf, first, size, printRx)

\* idle(): the keepalive command sent as the initialization handshake.
idle(buf, printTx) == send_command(buf, <<KEEPALIVE_CMD>>, printTx)

\* ------------------------------------------------------------------- Init

\* M18(port) with a port given never calls prompt_com_port_selection().
NoSelection ==
    [pc |-> "uncalled", ports |-> <<>>, i |-> 0, port_id |-> 0, entered |-> <<>>,
     out |-> <<>>, chosen |-> "", result |-> "", raised |-> ""]

\* A DataField with this address, neither property read yet.
Field(address) ==
    [address |-> address, got_h |-> FALSE, got_l |-> FALSE,
     addr_h |-> 0, addr_l |-> 0]

\* No DataField looked at.
NoField == Field(0)

\* No client constructed yet.
Unopened ==
    /\ port = [c \in Clients |-> "closed"]
    /\ inbuf = [c \in Clients |-> <<>>]
    /\ stale = [c \in Clients |-> 0]
    /\ firstWrite = [c \in Clients |-> <<>>]
    /\ wrote = [c \in Clients |-> FALSE]
    /\ cls = [n \in AttrNames |-> FALSE]
    /\ attr = [c \in Clients |-> EmptyDict]
    /\ cmdbuf = <<>>
    /\ resend = 0
    /\ last = Quiet("start", "")

Init ==
    /\ Unopened
    /\ sel = NoSelection
    /\ field = NoField

RECURSIVE TotalLen(_, _)
TotalLen(bufs, S) ==
    IF S = {} THEN 0
    ELSE LET c == CHOOSE x \in S : TRUE
         IN  Len(bufs[c]) + TotalLen(bufs, S \ {c})

Pending == TotalLen(inbuf, Clients)

NoteWrite(c, written) ==
    /\ wrote' = [wrote EXCEPT ![c] = TRUE]
    /\ firstWrite' = [firstWrite EXCEPT ![c] = IF wrote[c] THEN @ ELSE written]

\* ---------------------------------------------------------------- actions

\* An __init__ that opens the port and never calls idle().
Construct_NoIdle(c) ==
    /\ port[c] = "closed"
    /\ port' = [port EXCEPT ![c] = "open"]
    /\ last' = [Quiet("construct", c) EXCEPT !.calls = <<Call("open", 0, <<>>)>>]
    /\ UNCHANGED <<inbuf, stale, firstWrite, wrote, cls, attr, cmdbuf, resend, sel, field>>

\* M18(port): open the serial connection, then idle(). A port that cannot be
\* opened raises from serial.Serial and nothing else happens.
Construct(c) ==
    /\ port[c] = "closed"
    /\ \E openable \in BOOLEAN :
         IF ~openable
         THEN /\ last' = [Quiet("construct", c) EXCEPT
                              !.calls = <<Call("open_failed", 0, <<>>)>>,
                              !.raised = "SerialException"]
              /\ UNCHANGED <<port, inbuf, stale, firstWrite, wrote, cls, attr,
                             cmdbuf, resend, sel, field>>
         ELSE LET r == idle(<<>>, GetAttr(attr[c], cls, "PRINT_TX"))
              IN  /\ port' = [port EXCEPT ![c] = "open"]
                  /\ inbuf' = [inbuf EXCEPT ![c] = r.inbuf]
                  /\ stale' = [stale EXCEPT ![c] = 0]
                  /\ NoteWrite(c, r.written)
                  /\ last' = [Quiet("construct", c) EXCEPT
                                  !.cmd = r.command,
                                  !.calls = <<Call("open", 0, <<>>)>> \o r.calls,
                                  !.printed = r.printed,
                                  !.raised = r.raised,
                                  !.before = Flags(attr[c], cls)]
                  /\ UNCHANGED <<cls, attr, cmdbuf, resend, sel, field>>

\* The device puts one raw byte on the line of an open port.
DeviceSend(c, b) ==
    /\ port[c] = "open"
    /\ Pending < MaxBuf
    /\ inbuf' = [inbuf EXCEPT ![c] = Append(@, b)]
    /\ last' = Quiet("device", c)
    /\ UNCHANGED <<port, stale, firstWrite, wrote, cls, attr, cmdbuf, resend, sel, field>>

\* The caller builds a fresh command buffer.
NewCommand(cmd) ==
    /\ cmdbuf' = cmd
    /\ resend' = 0
    /\ last' = [Quiet("new_command", "") EXCEPT !.cmd = cmd]
    /\ UNCHANGED <<port, inbuf, stale, firstWrite, wrote, cls, attr, sel, field>>

\* c.add_checksum(cmdbuf): the caller's buffer is extended in place and is
\* the object returned.
AddChecksum(c) ==
    /\ port[c] = "open"
    /\ resend < MaxResend
    /\ LET r == add_checksum(cmdbuf)
       IN  /\ cmdbuf' = r.value
           /\ last' = [Quiet("add_checksum", c) EXCEPT
                           !.cmd = cmdbuf, !.raised = r.raised]
    /\ resend' = resend + 1
    /\ UNCHANGED <<port, inbuf, stale, firstWrite, wrote, cls, attr, sel, field>>

\* c.calculate_checksum(cmdbuf)
CalculateChecksum(c) ==
    /\ port[c] = "open"
    /\ last' = [Quiet("calculate_checksum", c) EXCEPT
                    !.cmd = cmdbuf, !.sum = calculate_checksum(cmdbuf)]
    /\ UNCHANGED <<port, inbuf, stale, firstWrite, wrote, cls, attr, cmdbuf,
                   resend, sel, field>>

\* c.send_command(cmdbuf)
SendCommand(c) ==
    /\ port[c] = "open"
    /\ resend < MaxResend
    /\ LET r == send_command(inbuf[c], cmdbuf, GetAttr(attr[c], cls, "PRINT_TX"))
       IN  /\ cmdbuf' = r.command
           /\ inbuf' = [inbuf EXCEPT ![c] = r.inbuf]
           /\ stale' = [stale EXCEPT ![c] = IF r.sent THEN Len(r.inbuf) ELSE @]
           /\ IF r.sent THEN NoteWrite(c, r.written)
                        ELSE UNCHANGED <<wrote, firstWrite>>
           /\ last' = [Quiet("send_command", c) EXCEPT
                           !.cmd = cmdbuf, !.pending = inbuf[c], !.calls = r.calls,
                           !.printed = r.printed, !.raised = r.raised,
                           !.before = Flags(attr[c], cls)]
    /\ resend' = resend + 1
    /\ UNCHANGED <<port, cls, attr, sel, field>>

\* c.read_response(size)
ReadResponse(c, size) ==
    /\ port[c] = "open"
    /\ LET r == read_response(inbuf[c], size, GetAttr(attr[c], cls, "PRINT_RX"))
           consumed == Len(inbuf[c]) - Len(r.inbuf)
       IN  /\ inbuf' = [inbuf EXCEPT ![c] = r.inbuf]
           /\ stale' = [stale EXCEPT ![c] = Max(0, @ - consumed)]
           /\ last' = [Quiet("read_response", c) EXCEPT
                           !.size = size, !.pending = inbuf[c], !.calls = r.calls,
                           !.printed = r.printed, !.result = r.result,
                           !.raised = r.raised,
                           !.staleRead = Min(consumed, stale[c]),
                           !.before = Flags(attr[c], cls)]
    /\ UNCHANGED <<port, firstWrite, wrote, cls, attr, cmdbuf, resend, sel, field>>

\* c.set_txrx_print(enable)
SetTxrxPrint(c, enable) ==
    /\ port[c] = "open"
    /\ LET r == set_txrx_print(attr[c], cls, enable)
       IN  /\ attr' = [attr EXCEPT ![c] = r.inst]
           /\ cls' = r.cls
    /\ last' = [Quiet("set_txrx_print", c) EXCEPT
                    !.enable = enable, !.before = Flags(attr[c], cls)]
    /\ UNCHANGED <<port, inbuf, stale, firstWrite, wrote, cmdbuf, resend, sel, field>>

\* c.save_and_set_txrx(enable)
SaveAndSetTxrx(c, enable) ==
    /\ port[c] = "open"
    /\ LET r == save_and_set_txrx(attr[c], cls, enable)
       IN  /\ attr' = [attr EXCEPT ![c] = r.inst]
           /\ cls' = r.cls
    /\ last' = [Quiet("save_and_set_txrx", c) EXCEPT
                    !.enable = enable, !.before = Flags(attr[c], cls),
                    !.nest = IF last.client = c /\ last.nest.stage = 1
                             THEN [last.nest EXCEPT !.stage = 2, !.b = enable]
                             ELSE IF last.client = c /\ last.nest.stage = 2
                             THEN [stage |-> 2, a |-> last.nest.b, b |-> enable,
                                   first |-> last.before]
                             ELSE [stage |-> 1, a |-> enable, b |-> FALSE,
                                   first |-> Flags(attr[c], cls)]]
    /\ UNCHANGED <<port, inbuf, stale, firstWrite, wrote, cmdbuf, resend, sel, field>>

\* c.restore_txrx()
RestoreTxrx(c) ==
    /\ port[c] = "open"
    /\ LET r == restore_txrx(attr[c], cls)
       IN  /\ attr' = [attr EXCEPT ![c] = r.inst]
           /\ cls' = r.cls
    /\ last' = [Quiet("restore_txrx", c) EXCEPT
                    !.before = Flags(attr[c], cls),
                    !.afterSave = (last.op = "save_and_set_txrx" /\ last.client = c),
                    !.saved = IF last.op = "save_and_set_txrx" /\ last.client = c
                              THEN last.before ELSE <<FALSE, FALSE>>,
                    !.nest = IF last.client = c /\ last.nest.stage \in {2, 3}
                             THEN [last.nest EXCEPT !.stage = @ + 1]
                             ELSE NoNest]
    /\ UNCHANGED <<port, inbuf, stale, firstWrite, wrote, cmdbuf, resend, sel, field>>

Next ==
    \/ \E c \in IOClients : Construct(c)
    \/ \E c \in IOClients, b \in RawSample : DeviceSend(c, b)
    \/ \E cmd \in Commands : NewCommand(cmd)
    \/ \E c \in IOClients : SendCommand(c)
    \/ \E c \in IOClients, size \in Sizes : ReadResponse(c, size)
    \/ \E c \in IOClients, enable \in BOOLEAN : SetTxrxPrint(c, enable)
    \/ \E c \in IOClients, enable \in BOOLEAN : SaveAndSetTxrx(c, enable)
    \/ \E c \in IOClients : RestoreTxrx(c)

\* The protocol client on its port, from before construction.
Spec == Init /\ [][Next]_vars

\* --------------------------------------------------- print flags, all clients

\* Every client constructed (port open, idle() written, nothing received).
Constructed ==
    /\ port = [c \in Clients |-> "open"]
    /\ inbuf = [c \in Clients |-> <<>>]
    /\ stale = [c \in Clients |-> 0]
    /\ firstWrite = [c \in Clients |-> idle(<<>>, FALSE).written]
    /\ wrote = [c \in Clients |-> TRUE]
    /\ cls = [n \in AttrNames |-> FALSE]
    /\ cmdbuf = <<>>
    /\ resend = 0
    /\ last = Quiet("start", "")
    /\ sel = NoSelection
    /\ field = NoField

\* PRINT_TX and PRINT_RX are public attributes: besides the class defaults, a
\* caller may have assigned either of them on a client before the calls start.
InitFlags ==
    /\ Constructed
    /\ attr \in [Clients -> {EmptyDict} \cup [{"PRINT_TX", "PRINT_RX"} -> BOOLEAN]]

NextFlags ==
    \/ \E c \in Clients, enable \in BOOLEAN : SetTxrxPrint(c, enable)
    \/ \E c \in Clients, enable \in BOOLEAN : SaveAndSetTxrx(c, enable)
    \/ \E c \in Clients : RestoreTxrx(c)

\* The flag methods from any flags a caller may have set.
SpecFlags == InitFlags /\ [][NextFlags]_vars

\* The flag methods from the class defaults.
InitShare ==
    /\ Constructed
    /\ attr = [c \in Clients |-> EmptyDict]

SpecShare == InitShare /\ [][NextFlags]_vars

\* ------------------------------------------------- framing, long commands

InitFrame == InitShare

NextFrame ==
    \/ \E cmd \in FrameCommands : NewCommand(cmd)
    \/ \E c \in Clients : CalculateChecksum(c)
    \/ \E c \in Clients : AddChecksum(c)
    \/ \E c \in Clients : SendCommand(c)
    \/ \E c \in Clients, enable \in BOOLEAN : SetTxrxPrint(c, enable)

SpecFrame == InitFrame /\ [][NextFrame]_vars

\* ------------------------------------------------------- an echoing device

\* Logical bytes of the echoed commands; 65 goes over the wire as 130.
EchoBytes == {1, 65, 255}

EchoCommands ==
    {<<KEEPALIVE_CMD>>} \cup {<<a>> : a \in EchoBytes}
                        \cup {<<a, b>> : a \in EchoBytes, b \in EchoBytes}

\* The device sends the frame it has just received back, byte for byte.
Echo(c) ==
    /\ port[c] = "open"
    /\ last.op = "send_command" /\ last.client = c /\ last.raised = ""
    /\ inbuf' = [inbuf EXCEPT ![c] = @ \o last.calls[2].data]
    /\ last' = Quiet("echo", c)
    /\ UNCHANGED <<port, stale, firstWrite, wrote, cls, attr, cmdbuf, resend,
                   sel, field>>

InitEcho == InitShare

NextEcho ==
    \/ \E cmd \in EchoCommands : NewCommand(cmd)
    \/ \E c \in IOClients : SendCommand(c)
    \/ \E c \in IOClients : Echo(c)
    \/ \E c \in IOClients, size \in Sizes : ReadResponse(c, size)

\* send_command and read_response against a device that echoes.
SpecEcho == InitEcho /\ [][NextEcho]_vars

\* --------------------------------------------------------- port selection

\* The serial ports list_ports.comports() may enumerate, by device name.
Devices == <<"/devA", "/devB", "/devC", "/devD">>

PortLists == {Take(Devices, n) : n \in 0 .. MaxPorts}

\* What the user may type at a prompt, as the characters of the line.
InputTexts ==
    {<<"x">>, <<>>, <<"0">>, <<"1">>, <<"2">>, <<"3">>, <<"-", "1">>,
     <<"1", "2">>, <<" ", "1">>}

DigitChars == {"0", "1", "2", "3", "4", "5", "6", "7", "8", "9"}

DigitValue(ch) ==
    CASE ch = "0" -> 0 [] ch = "1" -> 1 [] ch = "2" -> 2 [] ch = "3" -> 3
      [] ch = "4" -> 4 [] ch = "5" -> 5 [] ch = "6" -> 6 [] ch = "7" -> 7
      [] ch = "8" -> 8 [] ch = "9" -> 9

\* int() ignores the white space around the number.
RECURSIVE Strip(_)
Strip(text) ==
    IF text = <<>> THEN text
    ELSE IF text[1] = " " THEN Strip(Tail(text))
    ELSE IF text[Len(text)] = " " THEN Strip(Take(text, Len(text) - 1))
    ELSE text

Signed(text) == text # <<>> /\ text[1] \in {"-", "+"}

Unsigned(text) == IF Signed(text) THEN Tail(text) ELSE text

RECURSIVE DigitsValue(_)
DigitsValue(digits) ==
    IF digits = <<>> THEN 0
    ELSE DigitsValue(Take(digits, Len(digits) - 1)) * 10
           + DigitValue(digits[Len(digits)])

\* int(user_port) raises ValueError unless the line is an optional sign and
\* at least one decimal digit.
int_raises(text) ==
    LET body == Unsigned(Strip(text))
    IN  body = <<>> \/ \E k \in 1 .. Len(body) : body[k] \notin DigitChars

int_value(text) ==
    LET t == Strip(text)
        v == DigitsValue(Unsigned(t))
    IN  IF Signed(t) /\ t[1] = "-" THEN 0 - v ELSE v

\* One line of output, or one prompt of input().
Event(kind, text, n) == [kind |-> kind, text |-> text, n |-> n]

Prompt(i) == Event("input", "Choose a port (1-{i-1}): ", i - 1)

\* A loop that lets i itself through.
loop_condition_PastEnd(port_id, i) == (port_id < 1) \/ (port_id > i)

\* A loop that lets 0 through.
loop_condition_FromZero(port_id, i) == (port_id < 0) \/ (port_id >= i)

\* while (port_id < 1) or (port_id >= i)
loop_condition(port_id, i) == (port_id < 1) \/ (port_id >= i)

\* A body that is silent about a line that is not a number.
try_int_Silent(port_id, text) ==
    IF int_raises(text)
    THEN [port_id |-> port_id, printed |-> <<>>]
    ELSE [port_id |-> int_value(text), printed |-> <<>>]

\* The body of the loop after input() returned text: try int(), and on
\* ValueError print the message and leave port_id as it was.
try_int(port_id, text) ==
    IF int_raises(text)
    THEN [port_id |-> port_id,
          printed |-> <<Event("print", "Invalid input. Please enter a number", 0)>>]
    ELSE [port_id |-> int_value(text), printed |-> <<>>]

\* list[k] of Python: a negative k counts from the end.
index_raises(list, k) == k >= Len(list) \/ k < 0 - Len(list)

index(list, k) == IF k >= 0 THEN list[k + 1] ELSE list[Len(list) + k + 1]

\* prompt_com_port_selection() up to its first input(): the header, one line
\* per port, i one past the number of ports, port_id 0, the first prompt.
Selecting(ports) ==
    [pc |-> "prompt", ports |-> ports, i |-> 1 + Len(ports), port_id |-> 0,
     entered |-> <<>>,
     out |-> <<Event("print", "*** NO PORT SPECIFIED ***", 0),
               Event("print", "Available serial ports", Len(ports)),
               Prompt(1 + Len(ports))>>,
     chosen |-> "", result |-> "", raised |-> ""]

InitSelect ==
    /\ Unopened
    /\ sel \in {Selecting(ports) : ports \in PortLists}
    /\ field = NoField

\* input() returns text at the selection prompt: the rest of this turn of the
\* loop, and either the next prompt or p = ports[port_id - 1], the two lines
\* about the selection and the prompt for Enter.
EnterLine(text) ==
    /\ sel.pc = "prompt"
    /\ Len(sel.entered) < MaxAttempts
    /\ LET r == try_int(sel.port_id, text)
           entered == Append(sel.entered, text)
       IN  sel' =
             IF loop_condition(r.port_id, sel.i)
             THEN [sel EXCEPT !.port_id = r.port_id, !.entered = entered,
                              !.out = r.printed \o <<Prompt(sel.i)>>]
             ELSE IF index_raises(sel.ports, r.port_id - 1)
             THEN [sel EXCEPT !.port_id = r.port_id, !.entered = entered,
                              !.out = r.printed, !.pc = "raised",
                              !.raised = "IndexError"]
             ELSE LET p == index(sel.ports, r.port_id - 1)
                  IN  [sel EXCEPT !.port_id = r.port_id, !.entered = entered,
                                  !.pc = "enter", !.chosen = p,
                                  !.out = r.printed \o
                                      <<Event("print", "You selected", r.port_id),
                                        Event("print", "In future, use --port", r.port_id),
                                        Event("input", "Press Enter to continue", 0)>>]
    /\ UNCHANGED <<port, inbuf, stale, firstWrite, wrote, cls, attr, cmdbuf,
                   resend, last, field>>

\* input("Press Enter to continue") returns, whatever the line: return p.device.
PressEnter ==
    /\ sel.pc = "enter"
    /\ sel' = [sel EXCEPT !.pc = "returned", !.result = sel.chosen, !.out = <<>>]
    /\ UNCHANGED <<port, inbuf, stale, firstWrite, wrote, cls, attr, cmdbuf,
                   resend, last, field>>

NextSelect ==
    \/ \E text \in InputTexts : EnterLine(text)
    \/ PressEnter

\* prompt_com_port_selection() with any of the port lists.
SpecSelect == InitSelect /\ [][NextSelect]_vars

\* ------------------------------------------------------------ data fields

\* v >> n and v & 0xFF on the integers of Python.
shift_right(v, n) == v \div (2 ^ n)

and_0xFF(v) == v % 256

\* An addr_h that shifts by a nibble.
addr_h_Nibble(address) == and_0xFF(shift_right(address, 4))

\* return (self.address >> 8) & 0xFF
addr_h(address) == and_0xFF(shift_right(address, 8))

\* return self.address & 0xFF
addr_l(address) == and_0xFF(address)

InitField ==
    /\ Unopened
    /\ sel = NoSelection
    /\ field \in {Field(address) : address \in 0 .. MaxAddress}

ReadAddrH ==
    /\ ~field.got_h
    /\ field' = [field EXCEPT !.got_h = TRUE, !.addr_h = addr_h(field.address)]
    /\ UNCHANGED <<port, inbuf, stale, firstWrite, wrote, cls, attr, cmdbuf,
                   resend, last, sel>>

ReadAddrL ==
    /\ ~field.got_l
    /\ field' = [field EXCEPT !.got_l = TRUE, !.addr_l = addr_l(field.address)]
    /\ UNCHANGED <<port, inbuf, stale, firstWrite, wrote, cls, attr, cmdbuf,
                   resend, last, sel>>

NextField == ReadAddrH \/ ReadAddrL

\* The two address properties of every DataField.
SpecField == InitField /\ [][NextField]_vars

\* ------------------------------------------------------------------ claims

FlagOps == {"set_txrx_print", "save_and_set_txrx", "restore_txrx"}

FlagsOf(c) == Flags(attr[c], cls)

\* C1: when the first read of read_response returns no byte, the call raises
\* the empty-response error after exactly that one read(1), prints nothing,
\* returns nothing and changes no state of the client or its port.
C1_EmptyFirstRead ==
    [][(last'.op = "read_response" /\ last'.calls[1].data = <<>>) =>
          /\ last'.raised = "ValueError: Empty response"
          /\ Len(last'.calls) = 1
          /\ last'.calls[1].call = "read" /\ last'.calls[1].n = 1
          /\ last'.printed = <<>> /\ last'.result = <<>>
          /\ UNCHANGED <<port, inbuf, stale, firstWrite, wrote, cls, attr,
                         cmdbuf, resend>>]_vars

\* An empty first read with RX printing on and size 10.
C1_Witness ==
    /\ last.op = "read_response"
    /\ last.raised = "ValueError: Empty response"
    /\ last.before[2] = TRUE
    /\ last.size = 10

\* The first raw byte of the last read_response mirrors to the sentinel 0x82.
ShortReplyRead ==
    /\ last.op = "read_response"
    /\ Len(last.calls[1].data) = 1
    /\ reverse_bits(last.calls[1].data[1]) = SHORT_REPLY

\* The last read_response got a first byte that is not the sentinel.
LongReplyRead ==
    /\ last.op = "read_response"
    /\ Len(last.calls[1].data) = 1
    /\ reverse_bits(last.calls[1].data[1]) # SHORT_REPLY

\* C2 as stated: after a first byte that mirrors to 0x82, read_response
\* returns exactly 2 logical bytes whatever size is.
C2_ShortReplyExactlyTwo == ShortReplyRead => Len(last.result) = 2

\* C2 amended: after a first byte that mirrors to 0x82, read_response issues
\* exactly one more read, of 1 byte, whatever size is, and returns the mirror
\* of the first byte and of what that read delivered: 2 bytes when a second
\* byte arrived before the timeout, 1 byte otherwise.
C2_ShortReplyAtMostTwo ==
    ShortReplyRead =>
        /\ Len(last.calls) = 2
        /\ last.calls[2].call = "read" /\ last.calls[2].n = 1
        /\ last.raised = ""
        /\ Len(last.result) = Min(2, Len(last.pending))
        /\ last.result = MirrorAll(Take(last.pending, 2))

\* A short reply read with size 10 while three bytes were pending.
C2_Witness ==
    /\ ShortReplyRead
    /\ last.size = 10
    /\ Len(last.pending) = 3
    /\ Len(last.result) = 2
    /\ Len(inbuf[last.client]) = 1

\* C3 as stated: after a first byte that is not the sentinel, read_response
\* asks for size - 1 more bytes and returns exactly size logical bytes, each
\* the mirror of the raw byte at its place.
C3_ExactlySize ==
    LongReplyRead =>
        /\ last.calls[2].n = last.size - 1
        /\ Len(last.result) = last.size
        /\ \A k \in 1 .. Len(last.result) :
              last.result[k] = reverse_bits(last.pending[k])

\* C3 amended: after a first byte that is not the sentinel, read_response
\* asks for size - 1 more bytes and returns the mirror, in receive order, of
\* the first byte and of the bytes that second read delivered: for size >= 1,
\* exactly size bytes when the transport delivered them all before the
\* timeout, and fewer on a short read.
C3_UpToSize ==
    LongReplyRead =>
        /\ Len(last.calls) = 2
        /\ last.calls[2].call = "read" /\ last.calls[2].n = last.size - 1
        /\ last.raised = ""
        /\ last.result = MirrorAll(Take(last.pending, last.size))
        /\ Len(last.result) = Min(last.size, Len(last.pending))

\* A full read of size 3: raw 0x82 0x41 0x82 returned as 0x41 0x82 0x41.
C3_Witness ==
    /\ LongReplyRead
    /\ last.size = 3
    /\ last.pending = <<130, 65, 130>>
    /\ last.result = <<65, 130, 65>>

\* The two big-endian bytes of the 16-bit truncated checksum of a command.
TruncatedChecksum(c) ==
    LET t == calculate_checksum(c) % 65536
    IN  <<t \div 256, t % 256>>

\* C4: every send_command(c) writes the mirror of each byte of c followed by
\* the two big-endian checksum bytes of c, in order.
C4_WritesMirroredFrame ==
    last.op = "send_command" =>
        /\ last.raised = ""
        /\ Len(last.calls) = 2
        /\ last.calls[2].call = "write"
        /\ last.calls[2].data =
               MirrorAll(last.cmd \o TruncatedChecksum(last.cmd))

\* C5: add_checksum succeeds on every payload and appends the byte sum
\* modulo 65536, also when the sum exceeds 65535.
C5_ChecksumTruncated ==
    last.op = "add_checksum" =>
        /\ last.raised = ""
        /\ SubSeq(cmdbuf, Len(last.cmd) + 1, Len(cmdbuf))
               = TruncatedChecksum(last.cmd)

\* C6: add_checksum returns, for a command of length n, a frame (the
\* extended buffer) of length n + 2 that starts with the command's bytes in place and ends with the
\* checksum's high byte, then its low byte.
C6_FrameShape ==
    last.op = "add_checksum" =>
        /\ Len(cmdbuf) = Len(last.cmd) + 2
        /\ SubSeq(cmdbuf, 1, Len(last.cmd)) = last.cmd
        /\ cmdbuf[Len(last.cmd) + 1] = (calculate_checksum(last.cmd) \div 256) % 256
        /\ cmdbuf[Len(last.cmd) + 2] = calculate_checksum(last.cmd) % 256

\* C7: every send resets the input buffer before it writes the frame, so
\* nothing that was pending when the send began is left to read, and a
\* read_response never returns a byte older than the latest send.
C7_ResetBeforeWrite ==
    /\ (last.op = "send_command" /\ last.raised = "") =>
          /\ Len(last.calls) = 2
          /\ last.calls[1].call = "reset_input_buffer"
          /\ last.calls[2].call = "write"
          /\ inbuf[last.client] = <<>>
    /\ last.op = "read_response" => last.staleRead = 0
    /\ \A c \in Clients : stale[c] = 0

\* A send that began while bytes were pending.
C7_Witness ==
    /\ last.op = "send_command"
    /\ last.raised = ""
    /\ Len(last.pending) >= 2

\* C8: constructing a client on a port that opens succeeds, makes the open
\* its first transport call and the idle/keepalive frame (0x62 0x00 0x62,
\* mirrored to 0x46 0x00 0x46) its first write, before any other traffic.
C8_OpenThenIdle ==
    /\ (last.op = "construct" /\ last.calls[1].call = "open") =>
          /\ last.raised = ""
          /\ port[last.client] = "open"
          /\ Len(last.calls) = 3
          /\ last.calls[2].call = "reset_input_buffer"
          /\ last.calls[3].call = "write"
          /\ last.calls[3].data = <<70, 0, 70>>
          /\ last.cmd = <<98, 0, 98>>
    /\ \A c \in Clients :
          /\ port[c] = "open" => (wrote[c] /\ firstWrite[c] = <<70, 0, 70>>)
          /\ port[c] = "closed" => ~wrote[c]

\* A client was just constructed on a port that opened.
C8_Witness ==
    /\ last.op = "construct"
    /\ last.raised = ""
    /\ port[last.client] = "open"
    /\ wrote[last.client]

\* C9: save_and_set_txrx(enable) leaves both flags equal to enable, and a
\* restore_txrx that directly follows it gives back the pair of flags that
\* held before the save, for every such pair and every enable.
C9_SaveRestoreRoundTrip ==
    /\ last.op = "save_and_set_txrx" =>
          FlagsOf(last.client) = <<last.enable, last.enable>>
    /\ (last.op = "restore_txrx" /\ last.afterSave) =>
          FlagsOf(last.client) = last.saved

\* A restore brought back TX on / RX off after a save_and_set_txrx(False).
C9_Witness ==
    /\ last.op = "restore_txrx"
    /\ last.afterSave
    /\ last.saved = <<TRUE, FALSE>>
    /\ last.before = <<FALSE, FALSE>>
    /\ FlagsOf(last.client) = <<TRUE, FALSE>>

\* C10 as stated: after any client calls one of the flag methods, every
\* client reads the same PRINT_TX and PRINT_RX.
C10_ClassWide ==
    last.op \in FlagOps =>
        \A c \in Clients : FlagsOf(c) = FlagsOf(last.client)

\* C10 amended: the flag methods assign through self, so a call changes the
\* calling client's own attributes only: the class attributes stay as they
\* are and every other client reads the flags it read before the call.
C10_PerInstance ==
    [][last'.op \in FlagOps =>
          /\ cls' = cls
          /\ \A c \in Clients \ {last'.client} :
                /\ attr'[c] = attr[c]
                /\ Flags(attr'[c], cls') = Flags(attr[c], cls)]_vars

\* m1 switched printing on and m2 still reads the class defaults.
C10_Witness ==
    /\ last.op = "set_txrx_print"
    /\ last.client = "m1"
    /\ last.enable
    /\ FlagsOf("m1") = <<TRUE, TRUE>>
    /\ attr["m2"] = EmptyDict
    /\ FlagsOf("m2") = <<FALSE, FALSE>>

\* A line that picks a port: int() accepts it and the number is in [1, count].
Picks(text, ports) ==
    ~int_raises(text) /\ int_value(text) \in 1 .. Len(ports)

\* The selection is made (the loop is left), or the function has returned.
Selected == sel.pc \in {"enter", "returned"}

\* C11: the port selector returns only after a line that parses to an integer
\* in [1, count], and returns the device of the port at that 1-based index;
\* every earlier line, not a number or out of range, was rejected and
\* prompted again, and nothing failed.  With ports /devA, /devB the lines
\* "x", "0", "3", "2" select /devB after three rejected lines.
C11_ReturnsPickedPort ==
    LET n == Len(sel.entered)
    IN  /\ sel.raised = ""
        /\ sel.pc \in {"prompt", "enter", "returned"}
        /\ sel.pc = "prompt" =>
             /\ \A k \in 1 .. n : ~Picks(sel.entered[k], sel.ports)
             /\ sel.out[Len(sel.out)] = Prompt(Len(sel.ports) + 1)
        /\ Selected =>
             /\ n >= 1
             /\ Picks(sel.entered[n], sel.ports)
             /\ sel.chosen = sel.ports[int_value(sel.entered[n])]
             /\ \A k \in 1 .. n - 1 : ~Picks(sel.entered[k], sel.ports)
        /\ sel.pc = "returned" => sel.result = sel.chosen
        /\ (sel.ports = <<"/devA", "/devB">>
              /\ sel.entered = <<<<"x">>, <<"0">>, <<"3">>, <<"2">>>>)
             => Selected /\ sel.chosen = "/devB"

C11_Witness ==
    /\ sel.pc = "returned"
    /\ sel.ports = <<"/devA", "/devB">>
    /\ sel.entered = <<<<"x">>, <<"0">>, <<"3">>, <<"2">>>>
    /\ sel.result = "/devB"

IsPrefix(a, b) == Len(a) <= Len(b) /\ a = Take(b, Len(a))

\* C12: the bit reversal is an involution on 0..255, so the logical bytes of
\* a frame that the device echoes unchanged come back from read_response as
\* the same logical bytes: as many of them as were read, and the whole frame
\* when size covers it and the frame is not taken for a short reply.
C12_ReverseTwice ==
    [][(last.op = "echo" /\ last'.op = "read_response") =>
            /\ \A b \in 0 .. 255 : reverse_bits(reverse_bits(b)) = b
            /\ last'.raised = ""
            /\ last'.pending = MirrorAll(cmdbuf)
            /\ last'.result # <<>>
            /\ IsPrefix(last'.result, cmdbuf)
            /\ (last'.size >= Len(cmdbuf) /\ cmdbuf[1] # reverse_bits(SHORT_REPLY))
              => last'.result = cmdbuf]_vars

C12_Witness ==
    /\ last.op = "read_response"
    /\ last.pending = MirrorAll(cmdbuf)
    /\ cmdbuf = <<1, 255, 1, 0>>
    /\ last.calls[2].data = <<255, 128, 0>>
    /\ last.result = cmdbuf

\* C13: for every DataField whose address is in 0..65535, addr_h is the high
\* byte and addr_l the low byte of the address, and addr_h * 256 + addr_l is
\* the address again (0x1234 -> 0x12, 0x34; 0x00FF -> 0x00, 0xFF).
C13_AddressSplit ==
    (field.address \in 0 .. (2 ^ 16 - 1)) =>
        /\ field.got_h => field.addr_h \in 0 .. 255
        /\ field.got_l => field.addr_l \in 0 .. 255
        /\ (field.got_h /\ field.got_l) =>
             field.addr_h * 256 + field.addr_l = field.address
        /\ (field.got_h /\ field.address = 4660) => field.addr_h = 18
        /\ (field.got_l /\ field.address = 4660) => field.addr_l = 52
        /\ (field.got_h /\ field.address = 255) => field.addr_h = 0
        /\ (field.got_l /\ field.address = 255) => field.addr_l = 255

C13_Witness ==
    /\ field.address = 4660
    /\ field.got_h /\ field.got_l
    /\ field.addr_h = 18 /\ field.addr_l = 52

\* The sum of the byte values of a payload: each value that occurs, times
\* the number of places where it occurs.
RECURSIVE WeightedSum(_, _)
WeightedSum(payload, values) ==
    IF values = {} THEN 0
    ELSE LET v == CHOOSE x \in values : TRUE
         IN  v * Cardinality({k \in DOMAIN payload : payload[k] = v})
               + WeightedSum(payload, values \ {v})

PlainSum(payload) == WeightedSum(payload, {payload[k] : k \in DOMAIN payload})

\* C14: calculate_checksum returns the plain, untruncated sum of the byte
\* values of every payload: 0 for the empty payload, 1 for [0x01], 510 for
\* [0xFF, 0xFF], and more than 65535 when the bytes sum to more than 16 bits.
C14_PlainSum ==
    last.op = "calculate_checksum" =>
        /\ last.sum = PlainSum(last.cmd)
        /\ last.cmd = <<>> => last.sum = 0
        /\ last.cmd = <<1>> => last.sum = 1
        /\ last.cmd = <<255, 255>> => last.sum = 510
        /\ last.cmd = Rep(255, 258) => last.sum = 65790
        /\ PlainSum(last.cmd) > 65535 => last.sum > 65535

C14_Witness ==
    /\ last.op = "calculate_checksum"
    /\ Len(last.cmd) = 258
    /\ last.sum = 65790

\* C15: the save slot has one level: after save_and_set_txrx(a),
\* save_and_set_txrx(b), restore_txrx(), restore_txrx() on one client the
\* flags are (a, a), the flags at the second save, and not the flags from
\* before the first save; the second restore changes nothing.
C15_OneLevel ==
    LET n == last.nest
    IN  /\ n.stage \in {3, 4} =>
             /\ last.op = "restore_txrx"
             /\ FlagsOf(last.client) = <<n.a, n.a>>
             /\ n.first # <<n.a, n.a>> => FlagsOf(last.client) # n.first
        /\ n.stage = 4 => FlagsOf(last.client) = last.before

C15_Witness ==
    /\ last.nest = [stage |-> 4, a |-> TRUE, b |-> FALSE, first |-> <<FALSE, FALSE>>]
    /\ FlagsOf(last.client) = <<TRUE, TRUE>>

\* C16: read_response raises if and only if its first 1-byte read returns no
\* byte; a second read that times out or comes back short does not raise,
\* nothing is read a second time, and the bytes received are returned as
\* they are, mirrored, with no check of their content.
C16_OnlyEmptyFirstReadRaises ==
    last.op = "read_response" =>
        /\ (last.raised # "") <=> (last.calls[1].data = <<>>)
        /\ last.raised \in {"", "ValueError: Empty response"}
        /\ Len(last.calls) <= 2
        /\ \A k \in 1 .. Len(last.calls) : last.calls[k].call = "read"
        /\ last.raised = "" =>
             /\ Len(last.calls) = 2
             /\ last.calls[1].data \o last.calls[2].data
                  = Take(last.pending, Len(last.result))
             /\ last.result = MirrorAll(Take(last.pending, Len(last.result)))

\* A second read that asked for two bytes and got none.
C16_Witness ==
    /\ last.op = "read_response"
    /\ last.size = 3
    /\ last.pending = <<130>>
    /\ last.calls[2].n = 2 /\ last.calls[2].data = <<>>
    /\ last.raised = ""
    /\ last.result = <<65>>

\* C17: with no port enumerated no line whatsoever ends the prompt loop: the
\* selector neither returns nor raises.  With at least one port the loop is
\* left by the first line in [1, count], and the selector then returns that
\* port once the Enter prompt is answered.
C17_NoPortNoExit ==
    [][/\ Len(sel'.ports) = 0 =>
            /\ sel'.pc = "prompt"
            /\ sel'.raised = "" /\ sel'.result = "" /\ sel'.chosen = ""
            /\ sel'.out[Len(sel'.out)] = Prompt(1)
       /\ (sel.pc = "prompt" /\ sel' # sel
             /\ Picks(sel'.entered[Len(sel'.entered)], sel.ports)) =>
            /\ sel'.pc = "enter"
            /\ sel'.chosen = sel.ports[int_value(sel'.entered[Len(sel'.entered)])]
       /\ (sel.pc = "enter" /\ sel' # sel) =>
            /\ sel'.pc = "returned"
            /\ sel'.result = sel.chosen]_vars

\* No port, and the lines "1", "0", "x" typed: still at the prompt.
C17_Witness ==
    /\ sel.ports = <<>>
    /\ Len(sel.entered) >= 3
    /\ sel.entered[1] = <<"1">> /\ sel.entered[2] = <<"0">> /\ sel.entered[3] = <<"x">>
    /\ sel.pc = "prompt"

InvalidInputMessage == Event("print", "Invalid input. Please enter a number", 0)

\* The selector is back at the prompt after a line was typed.
Rejected == sel.pc = "prompt" /\ Len(sel.entered) >= 1

LastLine == sel.entered[Len(sel.entered)]

\* C18 as stated: every invalid line at the prompt, a line that is not a
\* number as well as a number outside [1, count], produces the inline message
\* and then a fresh prompt.
C18_MessageForEveryInvalidLine ==
    Rejected => sel.out = <<InvalidInputMessage, Prompt(sel.i)>>

\* C18, amended: a line that is not a number produces the inline message and
\* then a fresh prompt; a number outside [1, count] produces the fresh prompt
\* alone, with no message.
C18_MessageOnlyForNonNumbers ==
    Rejected =>
        /\ sel.out = (IF int_raises(LastLine) THEN <<InvalidInputMessage>> ELSE <<>>)
                       \o <<Prompt(Len(sel.ports) + 1)>>
        /\ LastLine \in {<<"x">>, <<>>} => sel.out[1] = InvalidInputMessage
        /\ LastLine \in {<<"0">>, <<"-", "1">>, <<"1", "2">>} => Len(sel.out) = 1

\* The number 3 typed with two ports: prompted again, and no message.
C18_Witness ==
    /\ Rejected
    /\ Len(sel.ports) = 2
    /\ LastLine = <<"3">>
    /\ sel.out = <<Prompt(3)>>

\* C19: send_command extends the caller's buffer in place: after every
\* send_command the buffer is the frame that was transmitted, two bytes longer
\* than before, so a further send_command of the same buffer transmits a frame
\* two bytes longer than the previous one, whose checksum covers the checksum
\* bytes appended earlier, and never the same frame again.
C19_BufferBecomesFrame ==
    last.op = "send_command" =>
        /\ Len(cmdbuf) = Len(last.cmd) + 2
        /\ Take(cmdbuf, Len(last.cmd)) = last.cmd
        /\ cmdbuf[Len(cmdbuf) - 1] * 256 + cmdbuf[Len(cmdbuf)]
             = PlainSum(last.cmd) % 65536
        /\ Len(last.calls) = 2
        /\ last.calls[2].data = MirrorAll(cmdbuf)
        /\ last.calls[2].data # MirrorAll(last.cmd)

\* C20: the print flags control the debug output and nothing else.  Whatever
\* the flags of the client are, a send_command or read_response step makes
\* the transport calls, writes the bytes, returns the response, raises the
\* error and leaves the buffers as the same call does with either value of
\* the flag, so two runs that differ only in the flags and their shadows and
\* make the same calls on the same input agree in all of these; the flag
\* methods touch neither port nor buffers; and a line that is printed shows
\* the logical, un-reversed frame.
C20_FlagsOnlyPrint ==
    [][/\ last'.op = "send_command" =>
            /\ \A f \in BOOLEAN :
                 LET r == send_command(inbuf[last'.client], cmdbuf, f)
                 IN  /\ r.calls = last'.calls
                     /\ r.raised = last'.raised
                     /\ r.command = cmdbuf'
                     /\ r.inbuf = inbuf'[last'.client]
            /\ last'.printed =
                 IF last'.before[1] /\ last'.raised = ""
                 THEN <<Line("Sending:  ", cmdbuf')>> ELSE <<>>
            /\ last'.raised = "" => last'.calls[2].data = MirrorAll(cmdbuf')
       /\ last'.op = "read_response" =>
            /\ \A f \in BOOLEAN :
                 LET r == read_response(inbuf[last'.client], last'.size, f)
                 IN  /\ r.calls = last'.calls
                     /\ r.raised = last'.raised
                     /\ r.result = last'.result
                     /\ r.inbuf = inbuf'[last'.client]
            /\ last'.printed =
                 IF last'.before[2] /\ last'.raised = ""
                 THEN <<Line("Received: ", last'.result)>> ELSE <<>>
       /\ last'.op \in FlagOps =>
            UNCHANGED <<port, inbuf, stale, firstWrite, wrote, cmdbuf, resend>>]_vars

\* A keepalive sent with PRINT_TX set: printed as 62 00 62, written as 46 00 46.
C20_Witness ==
    /\ last.op = "send_command"
    /\ last.before[1] = TRUE
    /\ last.printed = <<Line("Sending:  ", <<98, 0, 98>>)>>
    /\ last.calls[2].data = <<70, 0, 70>>


====
